---- MODULE Spec2Model ----
(***************************************************************************)
(* Model of vulkano's pipeline::graphics::multisample::MultisampleState:   *)
(* the value type, MultisampleState::new() and MultisampleState::validate, *)
(* called by one or several threads against one device.                    *)
(*                                                                         *)
(* f32 values are IEEE-754 binary32 values split into sign, biased         *)
(* exponent and mantissa; a u32 bit pattern is the set of its set bits.    *)
(***************************************************************************)
EXTENDS Integers, Sequences, FiniteSets, TLC

VARIABLES threads, device, cfg, pc, result

vars == <<threads, device, cfg, pc, result>>

\* Number of threads that validate concurrently in SpecConc.
NumThreads == 2

-----------------------------------------------------------------------------
(* f32 *)

F32(s, e, m) == [sign |-> s, exp |-> e, man |-> m]

F32Zero        == F32(0, 0, 0)
F32NegZero     == F32(1, 0, 0)
F32MinSub      == F32(0, 0, 1)
F32NegMinSub   == F32(1, 0, 1)
F32Half        == F32(0, 126, 0)
F32BelowOne    == F32(0, 126, 8388607)
F32One         == F32(0, 127, 0)
F32AboveOne    == F32(0, 127, 1)
F32OneAndHalf  == F32(0, 127, 4194304)
F32NegOne      == F32(1, 127, 0)
F32Inf         == F32(0, 255, 0)
F32NegInf      == F32(1, 255, 0)
F32NaN         == F32(0, 255, 4194304)
F32NegNaN      == F32(1, 255, 1)

F32Values ==
    { F32Zero, F32NegZero, F32MinSub, F32NegMinSub, F32Half, F32BelowOne,
      F32One, F32AboveOne, F32OneAndHalf, F32NegOne, F32Inf, F32NegInf,
      F32NaN, F32NegNaN }

is_nan(x) == x.exp = 255 /\ x.man # 0

\* Position of a non-NaN f32 on the number line: the magnitude bits, negated
\* when the sign bit is set (so that -0.0 and 0.0 coincide).
F32Key(x) ==
    LET mag == x.exp * 8388608 + x.man
    IN  IF x.sign = 1 THEN 0 - mag ELSE mag

\* <f32 as PartialOrd>::le : false as soon as one operand is NaN.
le(a, b) == ~is_nan(a) /\ ~is_nan(b) /\ F32Key(a) <= F32Key(b)

\* The half-open range 0.0..1.0 in place of 0.0..=1.0.
ContainsHalfOpen(start, end, item) ==
    le(start, item) /\ le(item, end) /\ ~le(end, item)

\* RangeInclusive<f32>::contains : start <= item && item <= end.
contains(start, end, item) == le(start, item) /\ le(item, end)

-----------------------------------------------------------------------------
(* Option, Result, ValidationError.  The problem texts are the source's,   *)
(* less the backquotes around Some and true.                             *)

None    == [tag |-> "None"]
Some(v) == [tag |-> "Some", value |-> v]

Ok == [tag |-> "Ok"]

\* Err(Box<ValidationError>)
Err(context, problem, requires_one_of, vuids) ==
    [tag |-> "Err", context |-> context, problem |-> problem,
     requires_one_of |-> requires_one_of, vuids |-> vuids]

\* RequiresOneOf(&[RequiresAllOf(&[Requires::Feature(name)])])
RequiresFeature(name) == {{[kind |-> "Feature", name |-> name]}}

\* RequiresOneOf::default()
RequiresNothing == {}

\* A call that has not returned.
NoResult == [tag |-> "Pending"]

-----------------------------------------------------------------------------
(* MultisampleState *)

SampleCount == {1, 2, 4, 8, 16, 32, 64}

AllBits == 0 .. 31

SampleMasks == {<<AllBits, AllBits>>, <<{}, {0, 31}>>, <<{0, 31}, AllBits>>}

SampleShadings == {None} \cup {Some(v) : v \in F32Values}

MultisampleState ==
    [rasterization_samples : SampleCount,
     sample_shading : SampleShadings,
     sample_mask : SampleMasks,
     alpha_to_coverage_enable : BOOLEAN,
     alpha_to_one_enable : BOOLEAN]

\* new() with alpha-to-one left enabled.
NewAlphaToOne ==
    [rasterization_samples |-> 1,
     sample_shading |-> None,
     sample_mask |-> <<AllBits, AllBits>>,
     alpha_to_coverage_enable |-> FALSE,
     alpha_to_one_enable |-> TRUE]

new ==
    [rasterization_samples |-> 1,
     sample_shading |-> None,
     sample_mask |-> <<AllBits, AllBits>>,
     alpha_to_coverage_enable |-> FALSE,
     alpha_to_one_enable |-> FALSE]

\* A thread that holds no MultisampleState.
NoState == [tag |-> "NoState"]

-----------------------------------------------------------------------------
(* Device *)

\* The sets of sample counts a device supports; the one-sample count is
\* supported by every device.
SupportedSampleCounts == {{1}, {1, 2, 4, 8}, SampleCount}

Devices ==
    [sample_rate_shading : BOOLEAN,
     alpha_to_one : BOOLEAN,
     sample_counts : SupportedSampleCounts]

\* SampleCount::validate_device : Ok, or the requirement that is not met.
validate_device(samples, dev) ==
    IF samples \in dev.sample_counts
    THEN Ok
    ELSE [tag |-> "Err", required_for |-> "is not supported by the device",
          requires_one_of |-> RequiresNothing]

\* ValidationError::from_requirement
from_requirement(err) ==
    Err("", err.required_for, err.requires_one_of, <<>>)

-----------------------------------------------------------------------------
(* MultisampleState::validate, one definition per check *)

\* The outcome of validate_device is dropped instead of propagated.
CheckRasterizationSamplesDropped(self, dev) == Ok

\* rasterization_samples.validate_device(device).map_err(..)?
CheckRasterizationSamples(self, dev) ==
    LET r == validate_device(self.rasterization_samples, dev)
    IN  IF r.tag = "Err"
        THEN [from_requirement(r) EXCEPT
                !.context = "rasterization_samples",
                !.vuids = <<"VUID-VkPipelineMultisampleStateCreateInfo-rasterizationSamples-parameter">>]
        ELSE Ok

\* The block on sample_shading placed after the block on alpha_to_one_enable.
CheckSampleShadingLast(self, dev) ==
    IF self.alpha_to_one_enable /\ ~dev.alpha_to_one
    THEN Ok
    ELSE IF self.sample_shading.tag = "Some"
    THEN IF ~dev.sample_rate_shading
         THEN Err("min_sample_shading", "is Some",
                  RequiresFeature("sample_rate_shading"),
                  <<"VUID-VkPipelineMultisampleStateCreateInfo-sampleShadingEnable-00784">>)
         ELSE IF ~contains(F32Zero, F32One, self.sample_shading.value)
         THEN Err("min_sample_shading", "is not between 0.0 and 1.0 inclusive",
                  RequiresNothing,
                  <<"VUID-VkPipelineMultisampleStateCreateInfo-minSampleShading-00786">>)
         ELSE Ok
    ELSE Ok

\* The range check done without looking at the capability first.
CheckSampleShadingRangeFirst(self, dev) ==
    IF self.sample_shading.tag = "Some"
    THEN IF ~contains(F32Zero, F32One, self.sample_shading.value)
         THEN Err("min_sample_shading", "is not between 0.0 and 1.0 inclusive",
                  RequiresNothing,
                  <<"VUID-VkPipelineMultisampleStateCreateInfo-minSampleShading-00786">>)
         ELSE IF ~dev.sample_rate_shading
         THEN Err("min_sample_shading", "is Some",
                  RequiresFeature("sample_rate_shading"),
                  <<"VUID-VkPipelineMultisampleStateCreateInfo-sampleShadingEnable-00784">>)
         ELSE Ok
    ELSE Ok

\* The out-of-range failure built from the capability failure, its
\* requires_one_of left in place.
CheckSampleShadingRemedyKept(self, dev) ==
    IF self.sample_shading.tag = "Some"
    THEN IF ~dev.sample_rate_shading
         THEN Err("min_sample_shading", "is Some",
                  RequiresFeature("sample_rate_shading"),
                  <<"VUID-VkPipelineMultisampleStateCreateInfo-sampleShadingEnable-00784">>)
         ELSE IF ~contains(F32Zero, F32One, self.sample_shading.value)
         THEN Err("min_sample_shading", "is not between 0.0 and 1.0 inclusive",
                  RequiresFeature("sample_rate_shading"),
                  <<"VUID-VkPipelineMultisampleStateCreateInfo-minSampleShading-00786">>)
         ELSE Ok
    ELSE Ok

\* if let Some(min_sample_shading) = sample_shading { .. }
CheckSampleShading(self, dev) ==
    IF self.sample_shading.tag = "Some"
    THEN LET min_sample_shading == self.sample_shading.value
         IN  IF ~dev.sample_rate_shading
             THEN Err("min_sample_shading", "is Some",
                      RequiresFeature("sample_rate_shading"),
                      <<"VUID-VkPipelineMultisampleStateCreateInfo-sampleShadingEnable-00784">>)
             ELSE IF ~contains(F32Zero, F32One, min_sample_shading)
             THEN Err("min_sample_shading", "is not between 0.0 and 1.0 inclusive",
                      RequiresNothing,
                      <<"VUID-VkPipelineMultisampleStateCreateInfo-minSampleShading-00786">>)
             ELSE Ok
    ELSE Ok

\* alpha_to_one_enable checked without regard to the device.
CheckAlphaToOneAlways(self, dev) ==
    IF self.alpha_to_one_enable
    THEN Err("alpha_to_one_enable", "is true",
             RequiresFeature("alpha_to_one"),
             <<"VUID-VkPipelineMultisampleStateCreateInfo-alphaToOneEnable-00785">>)
    ELSE Ok

\* alpha_to_coverage_enable read where alpha_to_one_enable is meant.
CheckAlphaToOneCoverage(self, dev) ==
    IF self.alpha_to_coverage_enable /\ ~dev.alpha_to_one
    THEN Err("alpha_to_one_enable", "is true",
             RequiresFeature("alpha_to_one"),
             <<"VUID-VkPipelineMultisampleStateCreateInfo-alphaToOneEnable-00785">>)
    ELSE Ok

\* if alpha_to_one_enable && !device.enabled_features().alpha_to_one { .. }
CheckAlphaToOne(self, dev) ==
    IF self.alpha_to_one_enable /\ ~dev.alpha_to_one
    THEN Err("alpha_to_one_enable", "is true",
             RequiresFeature("alpha_to_one"),
             <<"VUID-VkPipelineMultisampleStateCreateInfo-alphaToOneEnable-00785">>)
    ELSE Ok

\* One whole call of MultisampleState::validate(&self, device).
validate(self, dev) ==
    LET samples == CheckRasterizationSamples(self, dev)
        shading == CheckSampleShading(self, dev)
        alpha   == CheckAlphaToOne(self, dev)
    IN  IF samples # Ok THEN samples
        ELSE IF shading # Ok THEN shading
        ELSE IF alpha # Ok THEN alpha
        ELSE Ok

-----------------------------------------------------------------------------
(* Threads that build a MultisampleState and validate it against the device *)

\* The states validated concurrently in SpecConc.
ConcStates ==
    { [new EXCEPT !.rasterization_samples = 64],
      [new EXCEPT !.sample_shading = Some(F32Half), !.alpha_to_one_enable = TRUE],
      [new EXCEPT !.sample_shading = Some(F32OneAndHalf), !.alpha_to_one_enable = TRUE],
      [new EXCEPT !.sample_mask = <<{}, {0, 31}>>, !.alpha_to_coverage_enable = TRUE,
                  !.alpha_to_one_enable = TRUE] }

InitWith(ts) ==
    /\ threads = ts
    /\ device \in Devices
    /\ cfg = [t \in ts |-> NoState]
    /\ pc = [t \in ts |-> "none"]
    /\ result = [t \in ts |-> NoResult]

Init == InitWith({1})

InitConc == InitWith(1 .. NumThreads)

\* let state = MultisampleState::new();
New(t) ==
    /\ pc[t] = "none"
    /\ cfg' = [cfg EXCEPT ![t] = new]
    /\ pc' = [pc EXCEPT ![t] = "built"]
    /\ UNCHANGED <<threads, device, result>>

\* let state = MultisampleState { <fields>, ..MultisampleState::new() };
Literal(t, state) ==
    /\ pc[t] = "none"
    /\ cfg' = [cfg EXCEPT ![t] = state]
    /\ pc' = [pc EXCEPT ![t] = "built"]
    /\ UNCHANGED <<threads, device, result>>

\* state.validate(&device) is entered: the fields are read out of *self.
Call(t) ==
    /\ pc[t] \in {"built", "returned"}
    /\ pc' = [pc EXCEPT ![t] = "rasterization_samples"]
    /\ result' = [result EXCEPT ![t] = NoResult]
    /\ UNCHANGED <<threads, device, cfg>>

ValidateRasterizationSamples(t) ==
    /\ pc[t] = "rasterization_samples"
    /\ LET r == CheckRasterizationSamples(cfg[t], device)
       IN  IF r # Ok
           THEN /\ result' = [result EXCEPT ![t] = r]
                /\ pc' = [pc EXCEPT ![t] = "returned"]
           ELSE /\ pc' = [pc EXCEPT ![t] = "sample_shading"]
                /\ UNCHANGED result
    /\ UNCHANGED <<threads, device, cfg>>

ValidateSampleShading(t) ==
    /\ pc[t] = "sample_shading"
    /\ LET r == CheckSampleShading(cfg[t], device)
       IN  IF r # Ok
           THEN /\ result' = [result EXCEPT ![t] = r]
                /\ pc' = [pc EXCEPT ![t] = "returned"]
           ELSE /\ pc' = [pc EXCEPT ![t] = "alpha_to_one_enable"]
                /\ UNCHANGED result
    /\ UNCHANGED <<threads, device, cfg>>

\* The outcome written to a slot that every thread in a call shares.
ValidateAlphaToOneShared(t) ==
    /\ pc[t] = "alpha_to_one_enable"
    /\ result' = [u \in threads |->
                    IF u = t \/ pc[u] = "returned"
                    THEN CheckAlphaToOne(cfg[t], device)
                    ELSE result[u]]
    /\ pc' = [pc EXCEPT ![t] = "returned"]
    /\ UNCHANGED <<threads, device, cfg>>

\* The last check, then Ok(()).
ValidateAlphaToOne(t) ==
    /\ pc[t] = "alpha_to_one_enable"
    /\ result' = [result EXCEPT ![t] = CheckAlphaToOne(cfg[t], device)]
    /\ pc' = [pc EXCEPT ![t] = "returned"]
    /\ UNCHANGED <<threads, device, cfg>>

\* The state and the outcome of its validation go out of scope.
Discard(t) ==
    /\ pc[t] = "returned"
    /\ cfg' = [cfg EXCEPT ![t] = NoState]
    /\ result' = [result EXCEPT ![t] = NoResult]
    /\ pc' = [pc EXCEPT ![t] = "none"]
    /\ UNCHANGED <<threads, device>>

Next ==
    \E t \in threads :
        \/ New(t)
        \/ \E state \in MultisampleState : Literal(t, state)
        \/ Call(t)
        \/ ValidateRasterizationSamples(t)
        \/ ValidateSampleShading(t)
        \/ ValidateAlphaToOne(t)
        \/ Discard(t)

NextConc ==
    \E t \in threads :
        \/ New(t)
        \/ \E state \in ConcStates : Literal(t, state)
        \/ Call(t)
        \/ ValidateRasterizationSamples(t)
        \/ ValidateSampleShading(t)
        \/ ValidateAlphaToOne(t)
        \/ Discard(t)

Spec == Init /\ [][Next]_vars

SpecConc == InitConc /\ [][NextConc]_vars

TypeOK ==
    /\ threads \subseteq 1 .. NumThreads
    /\ device \in Devices
    /\ \A t \in threads :
        /\ cfg[t] \in MultisampleState \cup {NoState}
        /\ pc[t] \in {"none", "built", "rasterization_samples", "sample_shading",
                      "alpha_to_one_enable", "returned"}
        /\ result[t].tag \in {"Pending", "Ok", "Err"}

-----------------------------------------------------------------------------
(* Vocabulary of the properties *)

Returned(t) == pc[t] = "returned"

\* The device accepts the sample count of the state thread t validates.
Supported(t) == cfg[t].rasterization_samples \in device.sample_counts

\* The real number an f32 stands for lies in [0, 1]: it is a zero of either
\* sign, or positive and below 2^0, or exactly 2^0.
InUnitInterval(v) ==
    /\ ~(v.exp = 255 /\ v.man > 0)
    /\ \/ (v.exp = 0 /\ v.man = 0)
       \/ (v.sign = 0 /\ v.exp < 127)
       \/ (v.sign = 0 /\ v.exp = 127 /\ v.man = 0)

ShadingPresent(t) == cfg[t].sample_shading # None

\* The state of thread t breaks a rule on sample_shading.
ShadingViolated(t) ==
    /\ ShadingPresent(t)
    /\ ~(device.sample_rate_shading /\ InUnitInterval(cfg[t].sample_shading.value))

\* The state of thread t breaks the rule on alpha_to_one_enable.
AlphaToOneViolated(t) == cfg[t].alpha_to_one_enable = TRUE /\ device.alpha_to_one = FALSE

\* The rule a failure refers to tells which check produced it.
OnSamples(r) ==
    /\ r.tag = "Err"
    /\ r.vuids = <<"VUID-VkPipelineMultisampleStateCreateInfo-rasterizationSamples-parameter">>

OnShading(r) ==
    /\ r.tag = "Err"
    /\ r.vuids \in {<<"VUID-VkPipelineMultisampleStateCreateInfo-sampleShadingEnable-00784">>,
                    <<"VUID-VkPipelineMultisampleStateCreateInfo-minSampleShading-00786">>}

OnAlphaToOne(r) ==
    /\ r.tag = "Err"
    /\ r.vuids = <<"VUID-VkPipelineMultisampleStateCreateInfo-alphaToOneEnable-00785">>

\* The kinds of failure.
IsUnsupportedSampleCount(r) ==
    r.tag = "Err" /\ r.problem = "is not supported by the device"

IsCapabilityRequired(r) ==
    /\ r.tag = "Err"
    /\ r.requires_one_of # {}
    /\ \A all \in r.requires_one_of : all # {} /\ \A q \in all : q.kind = "Feature"

IsValueOutOfRange(r) ==
    /\ r.tag = "Err"
    /\ r.requires_one_of = {}
    /\ r.problem = "is not between 0.0 and 1.0 inclusive"

\* The capabilities a failure asks for.
Remedy(r) == {q.name : q \in UNION r.requires_one_of}

-----------------------------------------------------------------------------
(* Properties *)

\* C1: a state made by MultisampleState::new() passes validate on every
\* device, also on one with neither sample_rate_shading nor alpha_to_one.
C1_DefaultPasses ==
    \A t \in threads : (Returned(t) /\ cfg[t] = new) => result[t] = Ok

C1_Witness ==
    \E t \in threads :
        /\ Returned(t) /\ cfg[t] = new /\ result[t] = Ok
        /\ ~device.sample_rate_shading /\ ~device.alpha_to_one
        /\ device.sample_counts = {1}

\* C2: with a supported sample count and sample_shading = Some(v), validate
\* does not fail on sample_shading iff sample_rate_shading is enabled and
\* 0.0 <= v <= 1.0; without the capability the failure is CapabilityRequired
\* (whatever v), with it and v outside [0.0, 1.0] it is ValueOutOfRange.  With
\* sample_shading = None validate never fails on sample_shading.
C2_ShadingRule ==
    \A t \in threads : Returned(t) =>
        /\ ~ShadingPresent(t) => ~OnShading(result[t])
        /\ (ShadingPresent(t) /\ Supported(t)) =>
            LET v == cfg[t].sample_shading.value
            IN  /\ ~OnShading(result[t]) <=>
                       (device.sample_rate_shading /\ InUnitInterval(v))
                /\ ~device.sample_rate_shading =>
                       (OnShading(result[t]) /\ IsCapabilityRequired(result[t]))
                /\ (device.sample_rate_shading /\ ~InUnitInterval(v)) =>
                       (OnShading(result[t]) /\ IsValueOutOfRange(result[t]))

C2_Witness ==
    \E t \in threads :
        /\ Returned(t) /\ Supported(t) /\ device.sample_rate_shading
        /\ cfg[t].sample_shading = Some(F32AboveOne)
        /\ IsValueOutOfRange(result[t])

\* C3: when the sample count and sample_shading pass, validate fails on
\* alpha_to_one_enable iff alpha_to_one_enable is true and the alpha_to_one
\* capability is disabled; alpha_to_one_enable = false never fails.
C3_AlphaToOneRule ==
    \A t \in threads : (Returned(t) /\ Supported(t) /\ ~ShadingViolated(t)) =>
        /\ OnAlphaToOne(result[t]) <=>
               (cfg[t].alpha_to_one_enable /\ ~device.alpha_to_one)
        /\ ~cfg[t].alpha_to_one_enable => result[t] = Ok
        /\ ~OnAlphaToOne(result[t]) => result[t] = Ok

C3_Witness ==
    \E t \in threads :
        /\ Returned(t) /\ Supported(t) /\ ~ShadingViolated(t)
        /\ cfg[t].alpha_to_one_enable /\ ~device.alpha_to_one
        /\ OnAlphaToOne(result[t]) /\ IsCapabilityRequired(result[t])

\* C4: the outcome of validate does not depend on sample_mask and
\* alpha_to_coverage_enable: a state that differs from the validated one in
\* these two fields only has the same outcome on the same device.
C4_MaskAndCoverageIgnored ==
    \A t \in threads : Returned(t) =>
        \A mask \in SampleMasks, coverage \in BOOLEAN :
            validate([cfg[t] EXCEPT !.sample_mask = mask,
                                    !.alpha_to_coverage_enable = coverage],
                     device) = result[t]

C4_Witness ==
    \E t \in threads :
        /\ Returned(t)
        /\ cfg[t].sample_mask = <<{}, {0, 31}>>
        /\ cfg[t].alpha_to_coverage_enable
        /\ ~cfg[t].alpha_to_one_enable
        /\ ~device.alpha_to_one
        /\ result[t] = Ok

\* C5: validate succeeds iff the device accepts the sample count, and
\* sample_shading is None or allowed and within [0.0, 1.0], and
\* alpha_to_one_enable is false or allowed; a failure is one of the four
\* listed ones, and the outcome is Ok or a single failure.
C5_SuccessIff ==
    \A t \in threads : Returned(t) =>
        /\ result[t] = Ok <=>
               (Supported(t) /\ ~ShadingViolated(t) /\ ~AlphaToOneViolated(t))
        /\ result[t] # Ok =>
            \/ ~Supported(t) /\ OnSamples(result[t])
                  /\ IsUnsupportedSampleCount(result[t])
            \/ ShadingPresent(t) /\ ~device.sample_rate_shading
                  /\ OnShading(result[t]) /\ IsCapabilityRequired(result[t])
            \/ ShadingPresent(t) /\ device.sample_rate_shading
                  /\ ~InUnitInterval(cfg[t].sample_shading.value)
                  /\ OnShading(result[t]) /\ IsValueOutOfRange(result[t])
            \/ AlphaToOneViolated(t)
                  /\ OnAlphaToOne(result[t]) /\ IsCapabilityRequired(result[t])

C5_Witness ==
    \E t \in threads :
        /\ Returned(t) /\ result[t] = Ok
        /\ cfg[t].rasterization_samples = 8
        /\ cfg[t].sample_shading = Some(F32NegZero)
        /\ cfg[t].alpha_to_one_enable

\* C6: a sample count the device does not support fails with
\* UnsupportedSampleCount on rasterization_samples, whatever the other
\* fields and the two capabilities are.
C6_SampleCountFirst ==
    \A t \in threads : (Returned(t) /\ ~Supported(t)) =>
        /\ IsUnsupportedSampleCount(result[t])
        /\ OnSamples(result[t])
        /\ result[t].context = "rasterization_samples"

C6_Witness ==
    \E t \in threads :
        /\ Returned(t) /\ ~Supported(t)
        /\ ShadingViolated(t) /\ AlphaToOneViolated(t)
        /\ result[t].context = "rasterization_samples"

\* C7: with a supported sample count, a state that breaks a rule on
\* sample_shading and the rule on alpha_to_one_enable is reported for
\* sample_shading, never for alpha_to_one_enable, and for one rule only.
C7_ShadingBeforeAlphaToOne ==
    \A t \in threads :
        (Returned(t) /\ Supported(t) /\ ShadingViolated(t) /\ AlphaToOneViolated(t)) =>
            /\ OnShading(result[t])
            /\ ~OnAlphaToOne(result[t])
            /\ Len(result[t].vuids) = 1

C7_Witness ==
    \E t \in threads :
        /\ Returned(t) /\ Supported(t) /\ AlphaToOneViolated(t)
        /\ device.sample_rate_shading
        /\ cfg[t].sample_shading = Some(F32OneAndHalf)
        /\ OnShading(result[t])

\* C8: the context of a failure is the name of the field that caused it:
\* rasterization_samples, sample_shading or alpha_to_one_enable.
C8_ContextIsField ==
    \A t \in threads : (Returned(t) /\ result[t] # Ok) =>
        /\ OnSamples(result[t]) => result[t].context = "rasterization_samples"
        /\ OnShading(result[t]) => result[t].context = "sample_shading"
        /\ OnAlphaToOne(result[t]) => result[t].context = "alpha_to_one_enable"

\* C9: however the calls of several threads interleave on one device, each
\* call returns what one call alone returns for its state and the device,
\* and calls on equal states return equal outcomes.
C9_Deterministic ==
    /\ \A t \in threads : Returned(t) => result[t] = validate(cfg[t], device)
    /\ \A t, u \in threads :
           (Returned(t) /\ Returned(u) /\ cfg[t] = cfg[u]) => result[t] = result[u]

C9_Witness ==
    \E t, u \in threads :
        /\ t # u /\ Returned(t) /\ Returned(u)
        /\ cfg[t] = cfg[u] /\ result[t] = result[u] /\ OnShading(result[t])

\* C10: a failure for a missing capability asks for exactly that capability
\* (sample_rate_shading, alpha_to_one); the out-of-range failure asks for
\* none.
C10_Remedy ==
    \A t \in threads : (Returned(t) /\ Supported(t)) =>
        /\ (ShadingPresent(t) /\ ~device.sample_rate_shading) =>
               /\ Remedy(result[t]) = {"sample_rate_shading"}
               /\ Cardinality(result[t].requires_one_of) = 1
        /\ (ShadingPresent(t) /\ device.sample_rate_shading
              /\ ~InUnitInterval(cfg[t].sample_shading.value)) =>
               /\ result[t].tag = "Err"
               /\ result[t].requires_one_of = {}
        /\ (~ShadingViolated(t) /\ AlphaToOneViolated(t)) =>
               /\ Remedy(result[t]) = {"alpha_to_one"}
               /\ Cardinality(result[t].requires_one_of) = 1

C10_Witness ==
    \E t \in threads :
        /\ Returned(t) /\ Supported(t)
        /\ ShadingPresent(t) /\ ~device.sample_rate_shading
        /\ cfg[t].alpha_to_one_enable /\ ~device.alpha_to_one
        /\ Remedy(result[t]) = {"sample_rate_shading"}

====
